---- MODULE Spec2Model ----
(***************************************************************************)
(* A model of the f1-market exchange core: the bonding-curve pricing       *)
(* functions (pricing/bonding_curve.py), the wallet and ledger service     *)
(* (services/wallet_service.py), the market service (buy/sell,             *)
(* services/market_service.py) and the settlement service                  *)
(* (services/settlement_service.py).                                       *)
(*                                                                         *)
(* Money is fixed point: an integer v stands for v / Scale.  Shares,       *)
(* scores and the curve slope a are whole numbers.  The database is one    *)
(* record, db, holding the committed rows of every table the services      *)
(* touch; a SQLAlchemy session is a working copy of it that becomes the    *)
(* committed state at each db.session.commit() and is dropped by           *)
(* db.session.rollback().                                                  *)
(***************************************************************************)
EXTENDS Integers, Sequences, FiniteSets, TLC

VARIABLES db, ext, last, nops, req

vars == <<db, ext, last, nops, req>>

----------------------------------------------------------------------------
(* Bounds of the model                                                     *)

MaxQty == 2
MaxAmount == 2
MaxWalletOps == 3
MaxFaults == 1
MaxDeposits == 1
MaxTrades == 2
MaxSupply == 4
MaxDelta == 3
MaxSlope == 2

(* Program constants                                                       *)

Scale == 100
CurveA == 1
CurveB == Scale \div 2
RuleAlpha == Scale
RuleBeta == 0
FullScore == 25
PartialScore == 10
DepositAmount == 500

Users == {1, 2}
Markets == {1, 2}
None == 0

----------------------------------------------------------------------------
(* pricing/bonding_curve.py                                                *)

RECURSIVE IsqrtIter(_, _, _)
IsqrtIter(n, lo, hi) ==
    IF hi - lo <= 1 THEN lo
    ELSE LET mid == (lo + hi) \div 2
         IN  IF mid * mid <= n THEN IsqrtIter(n, mid, hi)
                               ELSE IsqrtIter(n, lo, mid)

\* math.sqrt / float ** 0.5 at the model's resolution: floor(sqrt(n))
Isqrt(n) == IsqrtIter(n, 0, 46341)

\* Decimal(str(sqrt(float(s)))), in units of 1/Scale
SqrtFixed(s) == Isqrt(s * Scale * Scale)

\* float(s) ** 1.5, in units of 1/Scale
Pow15(s) == Isqrt(s * s * s * Scale * Scale)

\* 2 * float(a) / 3, in units of 1/Scale
TwoThirds(a) == (2 * a * Scale) \div 3

Ok(v) == [ok |-> TRUE, v |-> v]
Err(e) == [ok |-> FALSE, v |-> e]

price_baseline(s, a, b) ==
    IF s < 0 THEN Err("ValueError")
    ELSE Ok(b)

price_decreasing(s, a, b) ==
    IF s < 0 THEN Err("ValueError")
    ELSE IF s = 0 THEN Ok(b)
    ELSE Ok(b - a * SqrtFixed(s))

price(s, a, b) ==
    IF s < 0 THEN Err("ValueError")
    ELSE IF s = 0 THEN Ok(b)
    ELSE Ok(a * SqrtFixed(s) + b)

buy_cost_no_baseline(s, delta_s, a, b) ==
    IF delta_s <= 0 THEN Err("ValueError")
    ELSE IF s < 0 THEN Err("ValueError")
    ELSE IF s = 0 THEN Ok((TwoThirds(a) * Pow15(delta_s)) \div Scale)
    ELSE Ok((TwoThirds(a) * (Pow15(s + delta_s) - Pow15(s))) \div Scale
            + b * delta_s)

buy_cost(s, delta_s, a, b) ==
    IF delta_s <= 0 THEN Err("ValueError")
    ELSE IF s < 0 THEN Err("ValueError")
    ELSE IF s = 0
         THEN Ok((TwoThirds(a) * Pow15(delta_s)) \div Scale + b * delta_s)
    ELSE Ok((TwoThirds(a) * (Pow15(s + delta_s) - Pow15(s))) \div Scale
            + b * delta_s)

sell_payout_flat(s, delta_s, a, b) ==
    IF delta_s <= 0 THEN Err("ValueError")
    ELSE IF s < 0 THEN Err("ValueError")
    ELSE IF delta_s > s THEN Err("ValueError")
    ELSE Ok((a * SqrtFixed(s - delta_s) + b) * delta_s)

sell_payout_unchecked(s, delta_s, a, b) ==
    IF delta_s <= 0 THEN Err("ValueError")
    ELSE IF s < 0 THEN Err("ValueError")
    ELSE Ok((TwoThirds(a) * (Pow15(s) - Pow15(s - delta_s))) \div Scale
            + b * delta_s)

sell_payout(s, delta_s, a, b) ==
    IF delta_s <= 0 THEN Err("ValueError")
    ELSE IF s < 0 THEN Err("ValueError")
    ELSE IF delta_s > s THEN Err("ValueError")
    ELSE IF s = delta_s
         THEN Ok((TwoThirds(a) * Pow15(s)) \div Scale + b * delta_s)
    ELSE Ok((TwoThirds(a) * (Pow15(s) - Pow15(s - delta_s))) \div Scale
            + b * delta_s)

RECURSIVE SumShares(_, _)
SumShares(rows, m) ==
    IF rows = <<>> THEN 0
    ELSE (IF Head(rows).market_id = m THEN Head(rows).shares ELSE 0)
         + SumShares(Tail(rows), m)

\* SELECT sum(shares) FROM positions WHERE market_id = m
get_current_supply(d, m) == SumShares(d.positions, m)

----------------------------------------------------------------------------
(* services/wallet_service.py                                              *)
(* Every user has a wallet row (get_or_create_wallet creates it with       *)
(* balance = locked_balance = 0 on first use).  Each operator takes the    *)
(* session's view d of the database and returns the outcome and the view   *)
(* after the call; lock_balance, unlock_balance and add_ledger_entry each  *)
(* end in db.session.commit(), so on "ok" the returned view is committed.  *)

Min(x, y) == IF x <= y THEN x ELSE y
Max(x, y) == IF x >= y THEN x ELSE y

Res(out, d) == [out |-> out, db |-> d]

get_balance(d, u) ==
    Max(d.wallet[u].balance - d.wallet[u].locked_balance, 0)

lock_balance_unchecked(d, u, amount) ==
    Res("ok", [d EXCEPT !.wallet[u].locked_balance = @ + amount])

lock_balance_total(d, u, amount) ==
    IF amount <= 0 THEN Res("ValueError", d)
    ELSE IF d.wallet[u].balance < amount
         THEN Res("InsufficientBalanceError", d)
    ELSE Res("ok", [d EXCEPT !.wallet[u].locked_balance = @ + amount])

lock_balance(d, u, amount) ==
    IF amount <= 0 THEN Res("ValueError", d)
    ELSE LET available == d.wallet[u].balance - d.wallet[u].locked_balance
         IN  IF available < amount THEN Res("InsufficientBalanceError", d)
             ELSE Res("ok", [d EXCEPT !.wallet[u].locked_balance = @ + amount])

unlock_balance_strict(d, u, amount) ==
    IF amount <= 0 THEN Res("ValueError", d)
    ELSE IF d.wallet[u].locked_balance < amount
         THEN Res("InsufficientBalanceError", d)
    ELSE Res("ok", [d EXCEPT !.wallet[u].locked_balance = @ - amount])

unlock_balance(d, u, amount) ==
    IF amount <= 0 THEN Res("ValueError", d)
    ELSE LET current_locked == d.wallet[u].locked_balance
         IN  IF current_locked < amount
             THEN Res("ok", [d EXCEPT !.wallet[u].locked_balance = 0])
             ELSE Res("ok", [d EXCEPT !.wallet[u].locked_balance =
                                          current_locked - amount])

LedgerEntry(u, amount, ttype, ref) ==
    [user_id |-> u, amount |-> amount, transaction_type |-> ttype,
     reference_id |-> ref]

WalletAfterEntry_balance_only(w, amount) ==
    [balance |-> w.balance + amount, locked_balance |-> w.locked_balance]

\* the wallet row after add_ledger_entry applied `amount` to it
WalletAfterEntry(w, amount) ==
    IF amount < 0
    THEN LET abs_amount == -amount
             current_locked == w.locked_balance
             reduction_from_locked ==
                 IF current_locked > 0 THEN Min(current_locked, abs_amount)
                                       ELSE 0
             rest == abs_amount - reduction_from_locked
         IN  [balance |-> IF rest > 0 THEN w.balance - rest ELSE w.balance,
              locked_balance |-> current_locked - reduction_from_locked]
    ELSE [balance |-> w.balance + amount,
          locked_balance |-> w.locked_balance]

add_ledger_entry_overwrite(d, u, amount, ttype, ref) ==
    Res("ok", [d EXCEPT
                 !.ledger = <<LedgerEntry(u, amount, ttype, ref)>>,
                 !.wallet[u] = WalletAfterEntry(@, amount)])

add_ledger_entry(d, u, amount, ttype, ref) ==
    Res("ok", [d EXCEPT
                 !.ledger = Append(@, LedgerEntry(u, amount, ttype, ref)),
                 !.wallet[u] = WalletAfterEntry(@, amount)])

----------------------------------------------------------------------------
(* services/market_service.py                                              *)
(* buy_shares and sell_shares take the committed database d and return     *)
(* the outcome and the database committed when the call has returned or    *)
(* raised: db.session.rollback() in the except clauses drops only what no  *)
(* earlier db.session.commit() of the call has made durable.               *)

\* Position.query.filter_by(user_id, market_id).first(): the row's index,
\* 0 when there is none
PositionIndex(rows, u, m) ==
    LET hits == {i \in 1 .. Len(rows) :
                    rows[i].user_id = u /\ rows[i].market_id = m}
    IN  IF hits = {} THEN 0
        ELSE CHOOSE i \in hits : \A j \in hits : i <= j

MarketNotSettled(d, m) == d.market_status[m] # "settled"

\* market.status != MarketStatus.OPEN raises MarketClosedError
MarketIsOpen(d, m) == d.market_status[m] = "open"

\* not market raises ValueError ("absent": no Market row with this id)
MarketExists(d, m) == d.market_status[m] # "absent"

HasPosition(d, u, m, quantity) == PositionIndex(d.positions, u, m) # 0

\* not (not position or position.shares < quantity)
HasShares(d, u, m, quantity) ==
    LET i == PositionIndex(d.positions, u, m)
    IN  i # 0 /\ d.positions[i].shares >= quantity

\* INSERT INTO trades: buyer_user_id is declared nullable=False
TradeInsertOk(row) == row.buyer_user_id # None

\* the position upsert of lines 70-93, on the session's view d
InsertPosition(d, u, m, quantity, cost) ==
    [d EXCEPT !.positions = Append(@,
        [user_id |-> u, market_id |-> m, shares |-> quantity,
         avg_entry_price |-> cost \div quantity, realized_pnl |-> 0])]

UpsertPosition(d, u, m, quantity, cost) ==
    LET i == PositionIndex(d.positions, u, m)
    IN  IF i = 0
        THEN [d EXCEPT !.positions = Append(@,
                 [user_id |-> u, market_id |-> m, shares |-> quantity,
                  avg_entry_price |-> cost \div quantity,
                  realized_pnl |-> 0])]
        ELSE LET old_shares == d.positions[i].shares
                 old_avg_price == d.positions[i].avg_entry_price
                 new_shares == old_shares + quantity
             IN  [d EXCEPT
                    !.positions[i].avg_entry_price =
                        (old_shares * old_avg_price + cost) \div new_shares,
                    !.positions[i].shares = new_shares]

\* the faults an injected storage error can raise inside buy_shares, named
\* by the step that raises
FaultSteps == {"position", "ledger", "trade", "price_history", "commit"}

buy_shares(d, u, m, quantity, fault) ==
    IF quantity <= 0 THEN Res("ValueError", d)
    ELSE IF ~MarketExists(d, m) THEN Res("ValueError", d)
    ELSE IF ~MarketIsOpen(d, m) THEN Res("MarketClosedError", d)
    ELSE
    LET current_supply == get_current_supply(d, m)
        c == buy_cost(current_supply, quantity, CurveA, CurveB)
    IN
    IF ~c.ok THEN Res("ValueError", d)
    ELSE
    LET cost == c.v
        locked == lock_balance(d, u, cost)
    IN
    IF locked.out # "ok" THEN Res(locked.out, d)
    ELSE IF fault \in {"position", "ledger"} THEN Res("Exception", locked.db)
    ELSE
    LET d1 == locked.db
        w2 == UpsertPosition(d1, u, m, quantity, cost)
        d3 == add_ledger_entry(w2, u, -cost, "buy", m).db
        trade == [market_id |-> m, buyer_user_id |-> u,
                  seller_user_id |-> None, price |-> cost \div quantity,
                  quantity |-> quantity]
        new_supply == current_supply + quantity
        new_price == price(new_supply, CurveA, CurveB)
        d4 == [d3 EXCEPT
                 !.trades = Append(@, trade),
                 !.price_history = Append(@,
                     [market_id |-> m, price |-> new_price.v,
                      reason |-> "buy"])]
    IN
    IF fault \in {"trade", "price_history", "commit"}
    THEN Res("Exception", d3)
    ELSE IF ~TradeInsertOk(trade) \/ ~new_price.ok THEN Res("ValueError", d3)
    ELSE Res("ok", d4)

sell_shares(d, u, m, quantity) ==
    IF quantity <= 0 THEN Res("ValueError", d)
    ELSE IF ~MarketExists(d, m) THEN Res("ValueError", d)
    ELSE IF ~MarketIsOpen(d, m) THEN Res("MarketClosedError", d)
    ELSE
    LET i == PositionIndex(d.positions, u, m)
    IN
    IF ~HasShares(d, u, m, quantity)
    THEN Res("InsufficientSharesError", d)
    ELSE
    LET current_supply == get_current_supply(d, m)
        p == sell_payout(current_supply, quantity, CurveA, CurveB)
    IN
    IF ~p.ok THEN Res("ValueError", d)
    ELSE
    LET payout == p.v
        old_shares == d.positions[i].shares
        old_avg_price == d.positions[i].avg_entry_price
        new_shares == old_shares - quantity
        sale_price_per_share == payout \div quantity
        realized_pnl_for_sale ==
            (sale_price_per_share - old_avg_price) * quantity
        w1 == [d EXCEPT
                 !.positions[i].shares = new_shares,
                 !.positions[i].realized_pnl = @ + realized_pnl_for_sale]
        d2 == add_ledger_entry(w1, u, payout, "sell", m).db
        trade == [market_id |-> m, buyer_user_id |-> None,
                  seller_user_id |-> u, price |-> payout \div quantity,
                  quantity |-> quantity]
        new_supply == current_supply - quantity
        new_price == price(new_supply, CurveA, CurveB)
        d3 == [d2 EXCEPT
                 !.trades = Append(@, trade),
                 !.price_history = Append(@,
                     [market_id |-> m, price |-> new_price.v,
                      reason |-> "sell"])]
    IN
    IF ~TradeInsertOk(trade) \/ ~new_price.ok THEN Res("ValueError", d2)
    ELSE Res("ok", d3)

----------------------------------------------------------------------------
(* services/settlement_service.py                                          *)
(* ext is the data the service only reads: per market the asset's type,    *)
(* the EventResult score of its participant (None: no result row) and the  *)
(* scoring rule's max_score.                                               *)

compute_payout_unfloored(primary_score, max_score, alpha, beta) ==
    IF max_score = 0 THEN Err("ValueError")
    ELSE Ok((alpha * ((primary_score * Scale) \div max_score)) \div Scale
            + beta)

\* linear_normalized (and piecewise, which falls back to it)
compute_payout_per_share(primary_score, max_score, alpha, beta) ==
    IF max_score = 0 THEN Err("ValueError")
    ELSE LET normalized == (primary_score * Scale) \div max_score
             payout == (alpha * normalized) \div Scale + beta
         IN  Ok(Max(payout, 0))

\* the ascending sequence of the members of a finite set of numbers
RECURSIVE SortedSeq(_)
SortedSeq(S) ==
    IF S = {} THEN <<>>
    ELSE LET x == CHOOSE y \in S : \A z \in S : y <= z
         IN  <<x>> \o SortedSeq(S \ {x})

AllMarkets(d) == SortedSeq(Markets)

\* Market.query.filter_by(event_id).filter(status in (OPEN, CLOSED)).all()
UnsettledMarkets(d) ==
    SortedSeq({m \in Markets : d.market_status[m] \in {"open", "closed"}})

\* Position.query.filter_by(market_id).filter(shares > 0).all(), as row
\* indices
OpenPositions(d, m) ==
    SortedSeq({i \in 1 .. Len(d.positions) :
                  d.positions[i].market_id = m /\ d.positions[i].shares > 0})

SettlementInsertAlways(d, m) == TRUE

\* INSERT INTO market_settlements: market_id is declared unique
SettlementInsertOk(d, m) ==
    \A i \in 1 .. Len(d.settlements) : d.settlements[i].market_id # m

StillOpenStatus == "open"

\* market.status = MarketStatus.SETTLED
SettledStatus == "settled"

\* the loop over a market's positions: c is what the session has committed,
\* w its working copy.  add_ledger_entry commits the working copy; the
\* position is zeroed after that commit, in the working copy only.
RECURSIVE SettlePositions(_, _, _, _, _)
SettlePositions(c, w, idxs, m, payout_per_share) ==
    IF idxs = <<>> THEN [c |-> c, w |-> w]
    ELSE LET i == Head(idxs)
             shares == w.positions[i].shares
             gross_payout == shares * payout_per_share
             c1 == add_ledger_entry(w, w.positions[i].user_id, gross_payout,
                                    "settlement", m).db
             w1 == [c1 EXCEPT !.positions[i].shares = 0]
         IN  SettlePositions(c1, w1, Tail(idxs), m, payout_per_share)

AnyAsset(x, m) == TRUE

\* the asset is a participant with an EventResult row (and the market has
\* a scoring rule); any other market is skipped (continue)
HasResult(x, m) == x.asset_type[m] = "participant" /\ x.result[m] # None

\* the loop over the selected markets
RECURSIVE SettleMarkets(_, _, _, _)
SettleMarkets(c, w, x, ms) ==
    IF ms = <<>> THEN [out |-> "ok", c |-> c, w |-> w]
    ELSE
    LET m == Head(ms)
    IN
    IF ~HasResult(x, m) THEN SettleMarkets(c, w, x, Tail(ms))
    ELSE
    LET pps == compute_payout_per_share(x.result[m], x.max_score[m],
                                        RuleAlpha, RuleBeta)
        current_supply == get_current_supply(w, m)
        settlement_price == price(current_supply, CurveA, CurveB)
    IN
    IF ~pps.ok \/ ~settlement_price.ok \/ ~SettlementInsertOk(w, m)
    THEN [out |-> "ValueError", c |-> c, w |-> c]
    ELSE
    LET w1 == [w EXCEPT
                 !.settlements = Append(@,
                     [market_id |-> m,
                      settlement_price |-> settlement_price.v,
                      payout_per_share |-> pps.v]),
                 !.market_status[m] = SettledStatus]
        r == SettlePositions(c, w1, OpenPositions(w1, m), m, pps.v)
    IN  SettleMarkets(r.c, r.w, x, Tail(ms))

settle_event(d, x) ==
    LET markets == UnsettledMarkets(d)
    IN  IF markets = <<>> THEN Res("ok", d)
        ELSE LET r == SettleMarkets(d, d, x, markets)
             IN  IF r.out = "ok"
                 THEN Res("ok", [r.w EXCEPT !.event_status = "finished"])
                 ELSE Res(r.out, r.c)

\* the loop of preview_settlement over the selected markets: the previews
\* appended so far, or the exception compute_payout_per_share raised
RECURSIVE PreviewMarkets(_, _, _, _)
PreviewMarkets(d, x, ms, previews) ==
    IF ms = <<>> THEN [out |-> "ok", previews |-> previews]
    ELSE
    LET m == Head(ms)
    IN
    IF x.asset_type[m] # "participant"
    THEN PreviewMarkets(d, x, Tail(ms), previews)
    ELSE IF x.result[m] = None
    THEN PreviewMarkets(d, x, Tail(ms), Append(previews,
             [market_id |-> m, status |-> "no_result_or_rule",
              payout_per_share |-> None, positions_count |-> 0,
              total_shares |-> 0, total_payout |-> 0]))
    ELSE
    LET pps == compute_payout_per_share(x.result[m], x.max_score[m],
                                        RuleAlpha, RuleBeta)
        positions == OpenPositions(d, m)
        total_shares == get_current_supply(d, m)
    IN  IF ~pps.ok THEN [out |-> "ValueError", previews |-> previews]
        ELSE PreviewMarkets(d, x, Tail(ms), Append(previews,
                 [market_id |-> m, status |-> "ok",
                  payout_per_share |-> pps.v,
                  positions_count |-> Len(positions),
                  total_shares |-> total_shares,
                  total_payout |-> total_shares * pps.v]))

preview_as_settle(d, x) == settle_event(d, x)

\* preview_settlement issues queries only: the session has nothing to
\* flush or commit when it returns or raises
preview_settlement(d, x) ==
    Res(PreviewMarkets(d, x, UnsettledMarkets(d), <<>>).out, d)

----------------------------------------------------------------------------
(* The state after construction (db.create_all, the fixtures of            *)
(* tests/conftest.py): empty tables, one event with its markets open.      *)

EmptyDb ==
    [wallet |-> [u \in Users |-> [balance |-> 0, locked_balance |-> 0]],
     positions |-> <<>>,
     ledger |-> <<>>,
     trades |-> <<>>,
     price_history |-> <<>>,
     market_status |-> [m \in Markets |-> "open"],
     settlements |-> <<>>,
     event_status |-> "upcoming"]

NoExt == [known |-> FALSE,
          result |-> [m \in Markets |-> None],
          max_score |-> [m \in Markets |-> FullScore],
          asset_type |-> [m \in Markets |-> "participant"]]

Call(op, u, m, q, out, pre) ==
    [op |-> op, user |-> u, market |-> m, qty |-> q, out |-> out, pre |-> pre]

NoCall == Call("none", 0, 0, 0, "ok", EmptyDb)

NoReq == [p \in {1, 2} |-> [pc |-> "unused"]]

----------------------------------------------------------------------------
(* SpecWallet: the wallet service called directly, any amounts.            *)

Amounts == (-MaxAmount) .. MaxAmount

InitWallet ==
    /\ db = EmptyDb
    /\ ext = NoExt
    /\ last = NoCall
    /\ nops = 0
    /\ req = NoReq

LockBalance(u, amount) ==
    /\ nops < MaxWalletOps
    /\ LET r == lock_balance(db, u, amount)
       IN  /\ db' = r.db
           /\ last' = Call("lock_balance", u, 0, amount, r.out, db)
    /\ nops' = nops + 1
    /\ UNCHANGED <<ext, req>>

UnlockBalance(u, amount) ==
    /\ nops < MaxWalletOps
    /\ LET r == unlock_balance(db, u, amount)
       IN  /\ db' = r.db
           /\ last' = Call("unlock_balance", u, 0, amount, r.out, db)
    /\ nops' = nops + 1
    /\ UNCHANGED <<ext, req>>

AddLedgerEntry(u, amount) ==
    /\ nops < MaxWalletOps
    /\ LET ttype == IF amount < 0 THEN "withdrawal" ELSE "deposit"
           r == add_ledger_entry(db, u, amount, ttype, None)
       IN  /\ db' = r.db
           /\ last' = Call("add_ledger_entry", u, 0, amount, r.out, db)
    /\ nops' = nops + 1
    /\ UNCHANGED <<ext, req>>

NextWallet ==
    \/ \E u \in Users, amount \in Amounts : LockBalance(u, amount)
    \/ \E u \in Users, amount \in Amounts : UnlockBalance(u, amount)
    \/ \E u \in Users, amount \in Amounts : AddLedgerEntry(u, amount)

SpecWallet == InitWallet /\ [][NextWallet]_vars

\* C1: wallet invariant -- every wallet has balance >= locked_balance >= 0
\* after any sequence of lock_balance, unlock_balance and add_ledger_entry
\* calls, whatever the amounts.
C1_WalletInvariant ==
    \A u \in Users :
        /\ db.wallet[u].balance >= db.wallet[u].locked_balance
        /\ db.wallet[u].locked_balance >= 0

----------------------------------------------------------------------------
(* Spec: the services called one after the other (each call runs to its    *)
(* return or its exception before the next starts).                        *)

Quantities == 1 .. MaxQty

\* the number of ledger entries of the users us with a type in ts
CountEntries(l, us, ts) ==
    Cardinality({i \in 1 .. Len(l) :
                    l[i].user_id \in us /\ l[i].transaction_type \in ts})

\* what a market's asset, result and scoring rule can be
MarketKinds == {"team", "no_result", "zero_max_score", "partial", "full"}

ExtOf(kind) ==
    [known |-> TRUE,
     asset_type |-> [m \in Markets |->
                        IF kind[m] = "team" THEN "team" ELSE "participant"],
     result |-> [m \in Markets |->
                    CASE kind[m] = "full" -> FullScore
                      [] kind[m] = "partial" -> PartialScore
                      [] kind[m] = "zero_max_score" -> FullScore
                      [] OTHER -> None],
     max_score |-> [m \in Markets |->
                       IF kind[m] = "zero_max_score" THEN 0 ELSE FullScore]]

\* the external rows are written before settlement and never by the
\* services; nothing reads them before the first settle_event call, where
\* the model draws them
ExtChoices == IF ext.known THEN {ext}
              ELSE {ExtOf(kind) : kind \in [Markets -> MarketKinds]}

Init ==
    /\ db = EmptyDb
    /\ ext = NoExt
    /\ last = NoCall
    /\ nops = 0
    /\ req = NoReq

\* the deposit of tests/conftest.py: a credit through add_ledger_entry
Deposit(u) ==
    /\ CountEntries(db.ledger, {u}, {"deposit"}) < MaxDeposits
    /\ LET r == add_ledger_entry(db, u, DepositAmount, "deposit", None)
       IN  /\ db' = r.db
           /\ last' = Call("deposit", u, 0, DepositAmount, r.out, db)
    /\ UNCHANGED <<ext, nops, req>>

Buy(u, m, q) ==
    /\ CountEntries(db.ledger, Users, {"buy", "sell"}) < MaxTrades
    /\ LET r == buy_shares(db, u, m, q, "none")
       IN  /\ db' = r.db
           /\ last' = Call("buy_shares", u, m, q, r.out, db)
    /\ UNCHANGED <<ext, nops, req>>

Sell(u, m, q) ==
    /\ CountEntries(db.ledger, Users, {"buy", "sell"}) < MaxTrades
    /\ LET r == sell_shares(db, u, m, q)
       IN  /\ db' = r.db
           /\ last' = Call("sell_shares", u, m, q, r.out, db)
    /\ UNCHANGED <<ext, nops, req>>

\* a market closed from outside the services (tests/test_market_service.py)
CloseMarket(m) ==
    /\ db.market_status[m] = "open"
    /\ db' = [db EXCEPT !.market_status[m] = "closed"]
    /\ last' = Call("close_market", 0, m, 0, "ok", db)
    /\ UNCHANGED <<ext, nops, req>>

Settle ==
    /\ \E x \in ExtChoices :
          LET r == settle_event(db, x)
          IN  /\ db' = r.db
              /\ ext' = x
              /\ last' = Call("settle_event", 0, 0, 0, r.out, db)
    /\ UNCHANGED <<nops, req>>

Next ==
    \/ \E u \in Users : Deposit(u)
    \/ \E u \in Users, m \in Markets, q \in Quantities : Buy(u, m, q)
    \/ \E u \in Users, m \in Markets, q \in Quantities : Sell(u, m, q)
    \/ \E m \in Markets : CloseMarket(m)
    \/ Settle

Spec == Init /\ [][Next]_vars

----------------------------------------------------------------------------
(* SpecFault: deposits and buys, where a buy may also be cut short by an   *)
(* exception raised inside its try block (a storage error at the named     *)
(* step, at most MaxFaults times); the except clause then rolls the         *)
(* session back and re-raises.                                             *)

BuyFault(u, m, q, fault) ==
    /\ CountEntries(db.ledger, Users, {"buy", "sell"}) < MaxTrades
    /\ nops < MaxFaults
    /\ LET r == buy_shares(db, u, m, q, fault)
       IN  /\ db' = r.db
           /\ last' = Call("buy_shares", u, m, q, r.out, db)
    /\ nops' = nops + 1
    /\ UNCHANGED <<ext, req>>

NextFault ==
    \/ \E u \in Users : Deposit(u)
    \/ \E u \in Users, m \in Markets, q \in Quantities : Buy(u, m, q)
    \/ \E u \in Users, m \in Markets, q \in Quantities, f \in FaultSteps :
          BuyFault(u, m, q, f)

SpecFault == Init /\ [][NextFault]_vars

----------------------------------------------------------------------------
(* SpecEvent: the event starts with no market (the test_event fixture);    *)
(* markets are added to it one by one, users deposit and buy, and          *)
(* preview_settlement and settle_event are called at any point.            *)

InitEvent ==
    /\ db = [EmptyDb EXCEPT !.market_status = [m \in Markets |-> "absent"]]
    /\ ext = NoExt
    /\ last = NoCall
    /\ nops = 0
    /\ req = NoReq

\* a Market row is added to the event with status OPEN
AddMarket(m) ==
    /\ db.market_status[m] = "absent"
    /\ db' = [db EXCEPT !.market_status[m] = "open"]
    /\ last' = Call("add_market", 0, m, 0, "ok", db)
    /\ UNCHANGED <<ext, nops, req>>

\* the results and rules a preview reads may still change before the
\* settlement, so a preview does not fix them
Preview ==
    /\ \E x \in ExtChoices :
          LET r == preview_settlement(db, x)
          IN  /\ db' = r.db
              /\ last' = Call("preview_settlement", 0, 0, 0, r.out, db)
    /\ UNCHANGED <<ext, nops, req>>

NextEvent ==
    \/ \E m \in Markets : AddMarket(m)
    \/ \E u \in Users : Deposit(u)
    \/ \E u \in Users, m \in Markets, q \in Quantities : Buy(u, m, q)
    \/ Preview
    \/ Settle

SpecEvent == InitEvent /\ [][NextEvent]_vars

----------------------------------------------------------------------------
(* SpecPure: the pricing functions and compute_payout_per_share called     *)
(* with arguments inside and outside their domains; req holds the last     *)
(* call, its arguments and what it returned or raised.                     *)

Supplies == (-1) .. MaxSupply
Deltas == (-1) .. MaxDelta
Slopes == (-1) .. MaxSlope
Baselines == {-CurveB, 0, CurveB}
Scores == {-PartialScore, 0, PartialScore, FullScore}
MaxScores == {-FullScore, 0, FullScore}
Alphas == {-RuleAlpha, 0, RuleAlpha}
Betas == {-CurveB, 0, CurveB}

InitPure ==
    /\ db = EmptyDb
    /\ ext = NoExt
    /\ last = NoCall
    /\ nops = 0
    /\ req = [fn |-> "none"]

CallPrice(s, a, b) ==
    /\ req' = [fn |-> "price", s |-> s, a |-> a, b |-> b,
               out |-> price(s, a, b)]
    /\ UNCHANGED <<db, ext, last, nops>>

CallBuyCost(s, delta_s, a, b) ==
    /\ req' = [fn |-> "buy_cost", s |-> s, delta_s |-> delta_s, a |-> a,
               b |-> b, out |-> buy_cost(s, delta_s, a, b)]
    /\ UNCHANGED <<db, ext, last, nops>>

CallSellPayout(s, delta_s, a, b) ==
    /\ req' = [fn |-> "sell_payout", s |-> s, delta_s |-> delta_s, a |-> a,
               b |-> b, out |-> sell_payout(s, delta_s, a, b)]
    /\ UNCHANGED <<db, ext, last, nops>>

CallComputePayout(primary_score, max_score, alpha, beta) ==
    /\ req' = [fn |-> "compute_payout_per_share",
               primary_score |-> primary_score, max_score |-> max_score,
               alpha |-> alpha, beta |-> beta,
               out |-> compute_payout_per_share(primary_score, max_score,
                                                alpha, beta)]
    /\ UNCHANGED <<db, ext, last, nops>>

NextPure ==
    \/ \E s \in Supplies, a \in Slopes, b \in Baselines : CallPrice(s, a, b)
    \/ \E s \in Supplies, d \in Deltas, a \in Slopes, b \in Baselines :
          CallBuyCost(s, d, a, b)
    \/ \E s \in Supplies, d \in Deltas, a \in Slopes, b \in Baselines :
          CallSellPayout(s, d, a, b)
    \/ \E ps \in Scores, ms \in MaxScores, al \in Alphas, be \in Betas :
          CallComputePayout(ps, ms, al, be)

SpecPure == InitPure /\ [][NextPure]_vars

----------------------------------------------------------------------------
(* SpecConc: two requests run buy_shares at the same time, each in its own *)
(* session, and settle_event may run between any two of their steps.  A    *)
(* request's step is the code between two commits (or between its reads    *)
(* and its first write); what it read earlier stays in its local           *)
(* variables.  Both users start funded by one deposit.                     *)

Procs == {1, 2}

RECURSIVE FundAll(_, _)
FundAll(d, us) ==
    IF us = <<>> THEN d
    ELSE FundAll(add_ledger_entry(d, Head(us), DepositAmount, "deposit",
                                  None).db, Tail(us))

Idle == [pc |-> "idle", user |-> 0, market |-> 0, qty |-> 0, supply |-> 0,
         cost |-> 0, out |-> "none", commit_supply |-> 0,
         commit_status |-> "none"]

InitConc ==
    /\ db = FundAll(EmptyDb, SortedSeq(Users))
    /\ ext = NoExt
    /\ last = NoCall
    /\ nops = 0
    /\ req = [p \in Procs |-> Idle]

\* market_service.py lines 47-64: the market's status, the supply and the
\* cost, read and computed before anything is written
BuyRead(p, u, m, q) ==
    /\ req[p].pc = "idle"
    /\ LET current_supply == get_current_supply(db, m)
           c == buy_cost(current_supply, q, CurveA, CurveB)
           r == [Idle EXCEPT !.user = u, !.market = m, !.qty = q]
       IN  req' = [req EXCEPT ![p] =
                IF ~MarketIsOpen(db, m)
                THEN [r EXCEPT !.pc = "done", !.out = "MarketClosedError"]
                ELSE IF ~c.ok
                THEN [r EXCEPT !.pc = "done", !.out = "ValueError"]
                ELSE [r EXCEPT !.pc = "priced", !.supply = current_supply,
                               !.cost = c.v]]
    /\ UNCHANGED <<db, ext, last, nops>>

\* line 67: lock_balance, which commits
BuyLock(p) ==
    /\ req[p].pc = "priced"
    /\ LET r == lock_balance(db, req[p].user, req[p].cost)
       IN  /\ db' = r.db
           /\ req' = [req EXCEPT ![p] =
                IF r.out = "ok" THEN [@ EXCEPT !.pc = "locked"]
                ELSE [@ EXCEPT !.pc = "done", !.out = r.out]]
    /\ UNCHANGED <<ext, last, nops>>

\* lines 70-103: the position upsert and the ledger debit, committed by
\* add_ledger_entry
BuyPosition(p) ==
    /\ req[p].pc = "locked"
    /\ LET r == req[p]
           w == UpsertPosition(db, r.user, r.market, r.qty, r.cost)
       IN  /\ db' = add_ledger_entry(w, r.user, -r.cost, "buy", r.market).db
           /\ req' = [req EXCEPT ![p] =
                [@ EXCEPT !.pc = "ledgered",
                          !.commit_supply = get_current_supply(db, r.market),
                          !.commit_status = db.market_status[r.market]]]
    /\ UNCHANGED <<ext, last, nops>>

\* lines 106-135: the trade and price-history rows and the final commit
BuyFinish(p) ==
    /\ req[p].pc = "ledgered"
    /\ LET r == req[p]
           new_price == price(r.supply + r.qty, CurveA, CurveB)
       IN  /\ db' = [db EXCEPT
                 !.trades = Append(@,
                     [market_id |-> r.market, buyer_user_id |-> r.user,
                      seller_user_id |-> None, price |-> r.cost \div r.qty,
                      quantity |-> r.qty]),
                 !.price_history = Append(@,
                     [market_id |-> r.market, price |-> new_price.v,
                      reason |-> "buy"])]
           /\ req' = [req EXCEPT ![p] = [@ EXCEPT !.pc = "done", !.out = "ok"]]
    /\ UNCHANGED <<ext, last, nops>>

SettleConc ==
    /\ last.op = "none"
    /\ \E x \in ExtChoices :
          LET r == settle_event(db, x)
          IN  /\ db' = r.db
              /\ ext' = x
              /\ last' = Call("settle_event", 0, 0, 0, r.out, db)
    /\ UNCHANGED <<nops, req>>

NextConc ==
    \/ \E p \in Procs, u \in Users, m \in Markets, q \in Quantities :
          BuyRead(p, u, m, q)
    \/ \E p \in Procs : BuyLock(p)
    \/ \E p \in Procs : BuyPosition(p)
    \/ \E p \in Procs : BuyFinish(p)
    \/ SettleConc

SpecConc == InitConc /\ [][NextConc]_vars

----------------------------------------------------------------------------
(* SpecSpend: two requests run buy_shares at the same time as in SpecConc,  *)
(* with wallets that hold just the cost of the largest single order, and    *)
(* with lock_balance in its two steps: the SELECT of the wallet row and,    *)
(* later, the check on the row as read, the UPDATE and the commit.  No row  *)
(* lock is taken between them.                                             *)

\* the cost of the largest order on an empty market
SpendFunds == buy_cost(0, MaxQty, CurveA, CurveB).v

RECURSIVE FundEach(_, _, _)
FundEach(d, us, amount) ==
    IF us = <<>> THEN d
    ELSE FundEach(add_ledger_entry(d, Head(us), amount, "deposit", None).db,
                  Tail(us), amount)

InitSpend ==
    /\ db = FundEach(EmptyDb, SortedSeq(Users), SpendFunds)
    /\ ext = NoExt
    /\ last = NoCall
    /\ nops = 0
    /\ req = [p \in Procs |-> Idle]

\* the request's local variables with the wallet row it has loaded
WithWallet(r, w) ==
    [f \in DOMAIN r \cup {"wallet"} |-> IF f = "wallet" THEN w ELSE r[f]]

\* wallet_service.py line 94: get_or_create_wallet loads the row
LockRead(p) ==
    /\ req[p].pc = "priced"
    /\ req' = [req EXCEPT ![p] =
                  WithWallet([@ EXCEPT !.pc = "wallet_read"],
                             db.wallet[req[p].user])]
    /\ UNCHANGED <<db, ext, last, nops>>

\* lines 95-103: the check on the loaded row, the new locked_balance
\* computed from it, and the commit
LockWrite(p) ==
    /\ req[p].pc = "wallet_read"
    /\ LET r == req[p]
           available == r.wallet.balance - r.wallet.locked_balance
       IN  IF available < r.cost
           THEN /\ req' = [req EXCEPT ![p] =
                              [@ EXCEPT !.pc = "done",
                                        !.out = "InsufficientBalanceError"]]
                /\ db' = db
           ELSE /\ req' = [req EXCEPT ![p] = [@ EXCEPT !.pc = "locked"]]
                /\ db' = [db EXCEPT !.wallet[r.user].locked_balance =
                                        r.wallet.locked_balance + r.cost]
    /\ UNCHANGED <<ext, last, nops>>

NextSpend ==
    \/ \E p \in Procs, u \in Users, m \in Markets, q \in Quantities :
          BuyRead(p, u, m, q)
    \/ \E p \in Procs : LockRead(p)
    \/ \E p \in Procs : LockWrite(p)
    \/ \E p \in Procs : BuyPosition(p)
    \/ \E p \in Procs : BuyFinish(p)

SpecSpend == InitSpend /\ [][NextSpend]_vars

----------------------------------------------------------------------------
(* SpecSettle: two requests run settle_event on the same event at the same *)
(* time, each in its own session.  A request's step is the code between    *)
(* two commits: what it has added or changed since its last commit is      *)
(* pending in its session (flushed to its open transaction by the next     *)
(* query) and reaches the database at its next commit; a rollback drops    *)
(* it.  The positions were bought before both calls, and the results and   *)
(* rules are on file.                                                      *)

\* the buys made before the event finishes: who bought how many shares of
\* what, in order
Plans ==
    UNION {[1 .. n -> Users \X Markets \X Quantities] : n \in 0 .. MaxTrades}

RECURSIVE BuyAll(_, _)
BuyAll(d, plan) ==
    IF plan = <<>> THEN d
    ELSE BuyAll(buy_shares(d, Head(plan)[1], Head(plan)[2], Head(plan)[3],
                           "none").db, Tail(plan))

NoPending == [settlements |-> <<>>, settled |-> {}, zeroed |-> {}]

IdleSettle == [pc |-> "idle", selected |-> <<>>, markets |-> <<>>,
               market |-> None, payout_per_share |-> 0, positions |-> <<>>,
               pending |-> NoPending, out |-> "none"]

InitSettle ==
    /\ \E plan \in Plans :
          db = BuyAll(FundAll(EmptyDb, SortedSeq(Users)), plan)
    /\ \E kind \in [Markets -> MarketKinds] : ext = ExtOf(kind)
    /\ last = Call("none", 0, 0, 0, "ok", db)
    /\ nops = 0
    /\ req = [p \in Procs |-> IdleSettle]

\* the database as a session with the pending changes pend sees it, and as
\* it is once they are committed
ApplyPending(d, pend) ==
    [d EXCEPT
       !.settlements = @ \o pend.settlements,
       !.market_status = [m \in Markets |->
                             IF m \in pend.settled THEN SettledStatus
                                                   ELSE @[m]],
       !.positions = [i \in 1 .. Len(@) |->
                         IF i \in pend.zeroed THEN [@[i] EXCEPT !.shares = 0]
                                              ELSE @[i]]]

\* the rows of market_settlements the unique index holds for request p's
\* INSERT: the committed ones and those the other open transactions have
\* flushed
RECURSIVE FlushedByOthers(_, _, _)
FlushedByOthers(d, p, ps) ==
    IF ps = <<>> THEN d
    ELSE FlushedByOthers(
             IF Head(ps) = p THEN d
             ELSE [d EXCEPT !.settlements =
                                @ \o req[Head(ps)].pending.settlements],
             p, Tail(ps))

\* settlement_service.py lines 80-97: the markets query and the early
\* return
SettleStart(p) ==
    /\ req[p].pc = "idle"
    /\ LET markets == UnsettledMarkets(db)
       IN  req' = [req EXCEPT ![p] =
                IF markets = <<>>
                THEN [@ EXCEPT !.pc = "done", !.out = "ok"]
                ELSE [@ EXCEPT !.pc = "markets", !.selected = markets,
                               !.markets = markets]]
    /\ UNCHANGED <<db, ext, last, nops>>

\* lines 104-165 for the next selected market, and lines 197-200 when none
\* is left
SettleMarket(p) ==
    /\ req[p].pc = "markets"
    /\ LET r == req[p]
           view == ApplyPending(db, r.pending)
       IN
       IF r.markets = <<>>
       THEN /\ db' = [view EXCEPT !.event_status = "finished"]
            /\ req' = [req EXCEPT ![p] =
                          [@ EXCEPT !.pc = "done", !.out = "ok",
                                    !.pending = NoPending]]
       ELSE
       LET m == Head(r.markets)
           pps == compute_payout_per_share(ext.result[m], ext.max_score[m],
                                           RuleAlpha, RuleBeta)
           settlement_price == price(get_current_supply(view, m),
                                     CurveA, CurveB)
           pend == [r.pending EXCEPT
                      !.settlements = Append(@,
                          [market_id |-> m,
                           settlement_price |-> settlement_price.v,
                           payout_per_share |-> pps.v]),
                      !.settled = @ \cup {m}]
           positions == OpenPositions(ApplyPending(db, pend), m)
       IN
       /\ db' = db
       /\ req' = [req EXCEPT ![p] =
             IF ~HasResult(ext, m)
             THEN [@ EXCEPT !.markets = Tail(@)]
             ELSE IF \/ ~pps.ok
                     \/ ~settlement_price.ok
                     \/ ~SettlementInsertOk(
                            FlushedByOthers(view, p, SortedSeq(Procs)), m)
             THEN [@ EXCEPT !.pc = "done", !.out = "ValueError",
                            !.pending = NoPending]
             ELSE IF positions = <<>>
             THEN [@ EXCEPT !.markets = Tail(@), !.pending = pend]
             ELSE [@ EXCEPT !.pc = "positions", !.market = m,
                            !.payout_per_share = pps.v,
                            !.positions = positions, !.pending = pend]]
    /\ UNCHANGED <<ext, last, nops>>

\* lines 167-186 for the next position of the market: the credit through
\* add_ledger_entry, which commits the session, then the position set to 0
\* shares in the session
SettlePosition(p) ==
    /\ req[p].pc = "positions"
    /\ LET r == req[p]
           i == Head(r.positions)
           view == ApplyPending(db, r.pending)
           shares == view.positions[i].shares
           gross_payout == shares * r.payout_per_share
       IN  /\ db' = add_ledger_entry(view, view.positions[i].user_id,
                                     gross_payout, "settlement", r.market).db
           /\ req' = [req EXCEPT ![p] =
                 [@ EXCEPT
                    !.positions = Tail(@),
                    !.pending = [NoPending EXCEPT !.zeroed = {i}],
                    !.pc = IF Tail(r.positions) = <<>> THEN "markets"
                                                       ELSE "positions",
                    !.markets = IF Tail(r.positions) = <<>> THEN Tail(@)
                                                            ELSE @]]
    /\ UNCHANGED <<ext, last, nops>>

NextSettle ==
    \/ \E p \in Procs : SettleStart(p)
    \/ \E p \in Procs : SettleMarket(p)
    \/ \E p \in Procs : SettlePosition(p)

SpecSettle == InitSettle /\ [][NextSettle]_vars

----------------------------------------------------------------------------
(* Claims                                                                  *)

RECURSIVE SumAmounts(_, _)
SumAmounts(l, u) ==
    IF l = <<>> THEN 0
    ELSE (IF Head(l).user_id = u THEN Head(l).amount ELSE 0)
         + SumAmounts(Tail(l), u)

\* C2: ledger completeness -- for every user the amounts of the user's
\* ledger entries sum to the wallet's balance, after any sequence of
\* deposits, buys, sells and settlements.
C2_LedgerCompleteness ==
    \A u \in Users : SumAmounts(db.ledger, u) = db.wallet[u].balance

\* C3: buy is atomic -- when buy_shares raises, at whatever step, the
\* committed database is exactly what it was before the call.
C3_BuyAtomic ==
    (last.op = "buy_shares" /\ last.out # "ok") => db = last.pre

\* C4: settlement is all-or-nothing -- when settle_event raises, nothing
\* the call changed remains committed.
C4_SettleAllOrNothing ==
    (last.op = "settle_event" /\ last.out # "ok") => db = last.pre

\* C5: settlement idempotence -- settle_event called again right after a
\* settle_event call (same results, rules and trades) settles nothing and
\* changes no row: the database is a fixed point of the second call, which
\* returns normally whenever the first did.
C5_SettleIdempotent ==
    last.op = "settle_event" =>
        LET again == settle_event(db, ext)
        IN  /\ again.db = db
            /\ last.out = "ok" => again.out = "ok"

C5_Witness ==
    /\ last.op = "settle_event"
    /\ last.out = "ok"
    /\ Len(db.settlements) > 0
    /\ Len(db.ledger) > Len(last.pre.ledger)
    /\ \E m \in Markets : db.market_status[m] # "settled"

\* C6: only an open market accepts trades -- buy_shares or sell_shares on
\* a closed or settled market fails with MarketClosedError and changes
\* nothing.
C6_OnlyOpenTrades ==
    (/\ last.op \in {"buy_shares", "sell_shares"}
     /\ last.pre.market_status[last.market] # "open")
    => (last.out = "MarketClosedError" /\ db = last.pre)

C6_Witness ==
    /\ last.op = "sell_shares"
    /\ last.out = "MarketClosedError"
    /\ last.pre.market_status[last.market] = "closed"
    /\ \E i \in 1 .. Len(db.positions) :
          /\ db.positions[i].user_id = last.user
          /\ db.positions[i].market_id = last.market
          /\ db.positions[i].shares >= last.qty

SettlementCount(d, m) ==
    Cardinality({i \in 1 .. Len(d.settlements) :
                    d.settlements[i].market_id = m})

\* C7: market status is forward-only with settled terminal -- no step takes
\* a market from settled to open or closed, or from closed to open; buy and
\* sell never change a status; a market has at most one MarketSettlement,
\* and a market that has one is settled.
C7_StatusForwardOnly ==
    [][/\ \A m \in Markets :
             /\ db.market_status[m] = "settled"
                    => db'.market_status[m] = "settled"
             /\ db.market_status[m] = "closed"
                    => db'.market_status[m] \in {"closed", "settled"}
             /\ SettlementCount(db', m) <= 1
             /\ SettlementCount(db', m) = 1
                    => db'.market_status[m] = "settled"
       /\ last'.op \in {"buy_shares", "sell_shares"}
              => db'.market_status = db.market_status]_vars

C7_Witness ==
    /\ last.op = "settle_event"
    /\ \E m \in Markets :
          /\ last.pre.market_status[m] = "closed"
          /\ db.market_status[m] = "settled"
          /\ SettlementCount(db, m) = 1
    /\ \E m \in Markets : db.market_status[m] = "open"

Abs(x) == IF x < 0 THEN -x ELSE x

\* request p has committed its position and ledger debit
Committed(p) ==
    \/ req[p].pc = "ledgered"
    \/ req[p].pc = "done" /\ req[p].out = "ok"

BothBought ==
    /\ \A p \in Procs : req[p].pc = "done" /\ req[p].out = "ok"
    /\ req[1].market = req[2].market
    /\ last.op = "none"

\* C8: no lost update on supply -- when two concurrent buys of one market
\* both succeed, each is priced at the supply committed when it writes its
\* position (the second at the supply the first left, never at the stale
\* supply both read), so the two costs sum, to one unit of rounding, to the
\* cost of buying both quantities at once from the starting supply.
C8_NoLostUpdate ==
    /\ \A p \in Procs :
          Committed(p) => req[p].supply = req[p].commit_supply
    /\ BothBought
          => Abs(req[1].cost + req[2].cost
                 - buy_cost(0, req[1].qty + req[2].qty, CurveA, CurveB).v)
             <= 1

\* C9: settlement excludes trading -- no buy commits its position and
\* ledger debit on a market that settle_event has already settled.
C9_SettlementExcludesTrading ==
    \A p \in Procs : Committed(p) => req[p].commit_status = "open"

\* the ledger entries the last call appended
NewEntries == SubSeq(db.ledger, Len(last.pre.ledger) + 1, Len(db.ledger))

SettlementEntries(l, u, m) ==
    {i \in 1 .. Len(l) : /\ l[i].user_id = u
                         /\ l[i].transaction_type = "settlement"
                         /\ l[i].reference_id = m}

PayoutOf(d, m) ==
    LET i == CHOOSE j \in 1 .. Len(d.settlements) :
                 d.settlements[j].market_id = m
    IN  d.settlements[i].payout_per_share

\* the markets the last call settled
JustSettled ==
    {m \in Markets : /\ last.pre.market_status[m] # "settled"
                     /\ db.market_status[m] = "settled"}

\* C10: settlement pays exactly the accrued claim -- when settle_event
\* settles a market with payout_per_share p, every position of n > 0
\* shares in it gets exactly one settlement entry of n * p referencing the
\* market, positions of 0 shares get none, every position row is kept with
\* shares 0, and each wallet balance rises by exactly the owner's entries.
C10_SettlementPaysClaim ==
    last.op = "settle_event" =>
        /\ Len(db.positions) = Len(last.pre.positions)
        /\ \A m \in JustSettled :
              /\ SettlementCount(db, m) = 1
              /\ \A i \in 1 .. Len(last.pre.positions) :
                    LET old == last.pre.positions[i]
                        e == SettlementEntries(NewEntries, old.user_id, m)
                    IN  old.market_id = m =>
                           /\ db.positions[i] = [old EXCEPT !.shares = 0]
                           /\ old.shares = 0 => e = {}
                           /\ old.shares > 0 =>
                                 /\ Cardinality(e) = 1
                                 /\ \A k \in e : NewEntries[k].amount =
                                        old.shares * PayoutOf(db, m)
        /\ \A u \in Users :
              db.wallet[u].balance =
                  last.pre.wallet[u].balance + SumAmounts(NewEntries, u)

\* the cost buy_shares computes for the last call, on the database before it
LastCost ==
    buy_cost(get_current_supply(last.pre, last.market), last.qty,
             CurveA, CurveB)

LastAvailable ==
    last.pre.wallet[last.user].balance
        - last.pre.wallet[last.user].locked_balance

\* C11: an unaffordable buy fails fast -- when the cost of a buy on an open
\* market exceeds balance - locked_balance, buy_shares raises
\* InsufficientBalanceError and leaves every row and both wallet fields as
\* they were.
C11_UnaffordableBuyFails ==
    (/\ last.op = "buy_shares"
     /\ last.pre.market_status[last.market] = "open"
     /\ LastCost.ok
     /\ LastCost.v > LastAvailable)
    => (last.out = "InsufficientBalanceError" /\ db = last.pre)

C11_Witness ==
    /\ last.op = "buy_shares"
    /\ last.out = "InsufficientBalanceError"
    /\ last.pre.wallet[last.user].locked_balance > 0
    /\ last.pre.wallet[last.user].balance >= LastCost.v
    /\ db = last.pre

\* the position of the last call's user in its market, before the call
LastHeld ==
    LET i == PositionIndex(last.pre.positions, last.user, last.market)
    IN  IF i = 0 THEN 0 ELSE last.pre.positions[i].shares

\* C12: a sell of more than the user holds is rejected -- sell_shares on an
\* open market by a user with no position there, or with fewer shares than
\* the quantity, raises InsufficientSharesError and changes nothing.
C12_OversellRejected ==
    (/\ last.op = "sell_shares"
     /\ last.pre.market_status[last.market] = "open"
     /\ LastHeld < last.qty)
    => (last.out = "InsufficientSharesError" /\ db = last.pre)

C12_Witness ==
    /\ last.op = "sell_shares"
    /\ last.out = "InsufficientSharesError"
    /\ LastHeld > 0
    /\ LastHeld < last.qty
    /\ db = last.pre

\* C13: a valid sell succeeds -- sell_shares of q > 0 on an open market by
\* a user holding at least q shares returns without error, records one
\* Trade with seller = user, lowers the position's shares by exactly q and
\* credits the wallet with the payout.
C13_ValidSellSucceeds ==
    (/\ last.op = "sell_shares"
     /\ last.pre.market_status[last.market] = "open"
     /\ LastHeld >= last.qty)
    => LET i == PositionIndex(last.pre.positions, last.user, last.market)
           payout == sell_payout(get_current_supply(last.pre, last.market),
                                 last.qty, CurveA, CurveB).v
       IN  /\ last.out = "ok"
           /\ Len(db.trades) = Len(last.pre.trades) + 1
           /\ db.trades[Len(db.trades)].seller_user_id = last.user
           /\ db.positions[i].shares = LastHeld - last.qty
           /\ db.wallet[last.user].balance =
                  last.pre.wallet[last.user].balance + payout

\* C14: a successful buy upserts the single (user, market) position -- a
\* first buy creates it with shares = qty and avg_entry_price = cost / qty,
\* a later buy sets shares = old + qty and avg_entry_price =
\* (old * old_avg + cost) / (old + qty); no (user, market) pair ever has
\* two positions.
C14_BuyUpsertsPosition ==
    /\ \A i, j \in 1 .. Len(db.positions) :
          (/\ db.positions[i].user_id = db.positions[j].user_id
           /\ db.positions[i].market_id = db.positions[j].market_id) => i = j
    /\ (last.op = "buy_shares" /\ last.out = "ok") =>
          LET k == PositionIndex(last.pre.positions, last.user, last.market)
              n == PositionIndex(db.positions, last.user, last.market)
              cost == LastCost.v
          IN  /\ n # 0
              /\ k = 0 =>
                    /\ db.positions[n].shares = last.qty
                    /\ db.positions[n].avg_entry_price = cost \div last.qty
              /\ k # 0 =>
                    LET old == last.pre.positions[k]
                    IN  /\ n = k
                        /\ db.positions[n].shares = old.shares + last.qty
                        /\ db.positions[n].avg_entry_price =
                               (old.shares * old.avg_entry_price + cost)
                                   \div (old.shares + last.qty)

C14_Witness ==
    /\ last.op = "buy_shares"
    /\ last.out = "ok"
    /\ LastHeld > 0
    /\ last.qty # LastHeld

LastWallet == last.pre.wallet[last.user]

\* C17: lock_balance(user, amount) with amount > 0 raises locked_balance by
\* exactly amount and leaves balance alone when balance - locked_balance >=
\* amount; otherwise it raises InsufficientBalanceError and changes neither
\* field.
C17_LockBalance ==
    (last.op = "lock_balance" /\ last.qty > 0) =>
        IF LastWallet.balance - LastWallet.locked_balance >= last.qty
        THEN /\ last.out = "ok"
             /\ db = [last.pre EXCEPT
                        !.wallet[last.user].locked_balance = @ + last.qty]
        ELSE /\ last.out = "InsufficientBalanceError"
             /\ db = last.pre

C17_Witness ==
    /\ last.op = "lock_balance"
    /\ last.out = "InsufficientBalanceError"
    /\ LastWallet.locked_balance > 0
    /\ LastWallet.balance >= last.qty

\* C18: unlock_balance(user, amount) with amount > 0 never raises; it
\* lowers locked_balance by min(amount, locked_balance), to 0 when less
\* than amount is locked, and changes neither balance nor the ledger.
C18_UnlockClamps ==
    (last.op = "unlock_balance" /\ last.qty > 0) =>
        /\ last.out = "ok"
        /\ db = [last.pre EXCEPT
                   !.wallet[last.user].locked_balance =
                       @ - Min(last.qty, @)]

C18_Witness ==
    /\ last.op = "unlock_balance"
    /\ LastWallet.locked_balance > 0
    /\ LastWallet.locked_balance < last.qty
    /\ db.wallet[last.user].locked_balance = 0

\* C19: add_ledger_entry treats a violated post-condition as an error --
\* whenever applying the entry would leave balance < locked_balance or
\* locked_balance < 0, the call fails and changes neither the wallet nor
\* the ledger.
C19_PostConditionEnforced ==
    LET after == WalletAfterEntry(LastWallet, last.qty)
    IN  (/\ last.op = "add_ledger_entry"
         /\ \/ after.balance < after.locked_balance
            \/ after.locked_balance < 0)
        => (last.out # "ok" /\ db = last.pre)

\* market m's asset is a team, or its participant has no EventResult
NoResultFor(m) == ext.asset_type[m] = "team" \/ ext.result[m] = None

\* the markets settle_event selects in the last call and skips
LastSkipped ==
    {m \in Markets : /\ last.pre.market_status[m] \in {"open", "closed"}
                     /\ NoResultFor(m)}

\* the markets it selects and can settle
LastEligible ==
    {m \in Markets : /\ last.pre.market_status[m] \in {"open", "closed"}
                     /\ ~NoResultFor(m)
                     /\ ext.max_score[m] # 0}

PositionsOf(d, m) ==
    {i \in 1 .. Len(d.positions) : d.positions[i].market_id = m}

\* C16: partial settlement -- settle_event skips a market with no
\* resolvable result without error: the market's status and positions are
\* unchanged, no MarketSettlement and no ledger entry is written for it,
\* and the eligible markets of the event are settled by the same call.
C16_PartialSettlement ==
    last.op = "settle_event" =>
        /\ \A m \in LastSkipped :
              /\ db.market_status[m] = last.pre.market_status[m]
              /\ SettlementCount(db, m) = 0
              /\ \A i \in PositionsOf(last.pre, m) :
                    db.positions[i] = last.pre.positions[i]
              /\ \A u \in Users : SettlementEntries(NewEntries, u, m) = {}
        /\ (\A m \in Markets : m \in LastSkipped \/ m \in LastEligible)
              => /\ last.out = "ok"
                 /\ \A m \in LastEligible : db.market_status[m] = "settled"

C16_Witness ==
    /\ last.op = "settle_event"
    /\ last.out = "ok"
    /\ \E m \in LastSkipped : get_current_supply(db, m) > 0
    /\ \E m \in LastEligible :
          /\ db.market_status[m] = "settled"
          /\ \E u \in Users : SettlementEntries(NewEntries, u, m) # {}

\* C15: after every settle_event call that returns without error the
\* event's status is finished, however many markets the call settled or
\* skipped.
C15_EventFinished ==
    (last.op = "settle_event" /\ last.out = "ok")
        => db.event_status = "finished"

\* C20: preview_settlement is read-only -- the call changes no market
\* status, position, wallet, ledger entry, MarketSettlement or event
\* status.
C20_PreviewReadOnly ==
    last.op = "preview_settlement" => db = last.pre

C20_Witness ==
    /\ last.op = "preview_settlement"
    /\ last.out = "ok"
    /\ ext.known
    /\ settle_event(db, ext).db # db
    /\ \E m \in Markets : get_current_supply(db, m) > 0

\* alpha * (primary_score / max_score) + beta for the last call
LinearValue ==
    (req.alpha * ((req.primary_score * Scale) \div req.max_score)) \div Scale
        + req.beta

C24_RoundTripLoss ==
    (req.fn = "buy_cost" /\ req.s >= 0 /\ req.delta_s > 0 /\ req.a > 0) =>
        sell_payout(req.s + req.delta_s, req.delta_s, req.a, req.b).v
            < req.out.v

\* C25: selling the whole supply returns the cost of buying it from zero --
\* for s > 0, sell_payout(s, s, a, b) = buy_cost(0, s, a, b)
\* = (2a/3) * s^1.5 + b * s.
C25_SellAllIsBuyFromZero ==
    (req.fn = "sell_payout" /\ req.s > 0 /\ req.delta_s = req.s) =>
        /\ req.out.ok
        /\ req.out = buy_cost(0, req.s, req.a, req.b)
        /\ req.out.v = (TwoThirds(req.a) * Pow15(req.s)) \div Scale
                           + req.b * req.s

C25_Witness ==
    /\ req.fn = "sell_payout"
    /\ req.s > 1
    /\ req.delta_s = req.s
    /\ req.a > 0
    /\ req.b > 0
    /\ req.out.ok

\* C26: price is monotone -- for a >= 0 and 0 <= s1 <= s2,
\* price(s1, a, b) <= price(s2, a, b), and price(0, a, b) = b.
C26_PriceMonotone ==
    (req.fn = "price" /\ req.s >= 0 /\ req.a >= 0) =>
        /\ req.out.ok
        /\ \A s2 \in req.s .. (MaxSupply + 1) :
              req.out.v <= price(s2, req.a, req.b).v
        /\ price(0, req.a, req.b) = Ok(req.b)

C26_Witness ==
    /\ req.fn = "price"
    /\ req.s > 0
    /\ req.s < MaxSupply
    /\ req.a > 0
    /\ req.out.ok
    /\ req.out.v < price(MaxSupply, req.a, req.b).v

\* C27: selling from a higher supply pays less -- for a > 0 and
\* delta <= s_low < s_high, sell_payout(s_high, delta, a, b)
\* < sell_payout(s_low, delta, a, b).
C27_HigherSupplyPaysLess ==
    (/\ req.fn = "sell_payout"
     /\ req.a > 0
     /\ req.delta_s > 0
     /\ req.delta_s <= req.s) =>
        \A s_high \in (req.s + 1) .. (MaxSupply + 1) :
            sell_payout(s_high, req.delta_s, req.a, req.b).v < req.out.v

\* C28: the pricing functions reject out-of-domain input with an error --
\* price for s < 0; buy_cost for delta <= 0 or s < 0; sell_payout for
\* delta <= 0, s < 0 or delta > s.
C28_DomainErrors ==
    /\ (req.fn = "price" /\ req.s < 0) => ~req.out.ok
    /\ (req.fn = "buy_cost" /\ (req.delta_s <= 0 \/ req.s < 0))
           => ~req.out.ok
    /\ (req.fn = "sell_payout"
            /\ (req.delta_s <= 0 \/ req.s < 0 \/ req.delta_s > req.s))
           => ~req.out.ok

C28_Witness ==
    /\ req.fn = "sell_payout"
    /\ req.s > 0
    /\ req.delta_s = req.s + 1
    /\ req.out = Err("ValueError")

\* what preview_settlement reports on database d with results x: for each
\* market with a payout_per_share, the payout and the total payout
PreviewReport(d, x) ==
    LET p == PreviewMarkets(d, x, UnsettledMarkets(d), <<>>)
    IN  IF p.out # "ok" THEN {}
        ELSE {[market_id |-> p.previews[i].market_id,
               payout_per_share |-> p.previews[i].payout_per_share,
               total_payout |-> p.previews[i].total_payout] :
                 i \in {j \in 1 .. Len(p.previews) :
                           p.previews[j].status = "ok"}}

RECURSIVE SumSettlementCredits(_, _)
SumSettlementCredits(l, m) ==
    IF l = <<>> THEN 0
    ELSE (IF Head(l).transaction_type = "settlement"
             /\ Head(l).reference_id = m THEN Head(l).amount ELSE 0)
         + SumSettlementCredits(Tail(l), m)

\* what settle_event does on the same database and results: the markets it
\* settles, their payout and the settlement credits it makes for each
SettleReport(d, x) ==
    LET after == settle_event(d, x).db
        new == SubSeq(after.ledger, Len(d.ledger) + 1, Len(after.ledger))
    IN  {[market_id |-> m,
          payout_per_share |-> PayoutOf(after, m),
          total_payout |-> SumSettlementCredits(new, m)] :
            m \in {k \in Markets : /\ d.market_status[k] # "settled"
                                   /\ after.market_status[k] = "settled"}}

\* C21: preview_settlement agrees with settle_event -- in any state the
\* markets for which the preview reports a payout_per_share are exactly
\* the markets settle_event would settle if called next, with the same
\* payout_per_share, and each previewed total_payout is the sum of the
\* settlement credits settle_event would make for the market.
C21_PreviewAgrees ==
    \A x \in ExtChoices : PreviewReport(db, x) = SettleReport(db, x)

\* C29: sell is atomic -- when sell_shares raises after the position check
\* the committed database is exactly what it was before the call.
C29_SellAtomic ==
    (/\ last.op = "sell_shares"
     /\ last.pre.market_status[last.market] = "open"
     /\ LastHeld >= last.qty
     /\ last.out # "ok")
    => db = last.pre

IsPrefix(s, l) == Len(s) <= Len(l) /\ s = SubSeq(l, 1, Len(s))

\* C30: the audit logs are append-only -- a successful buy or sell adds
\* exactly one Trade, one PriceHistory and one LedgerEntry, and no call
\* modifies or deletes a Trade, PriceHistory or LedgerEntry written
\* earlier.
C30_AppendOnlyLogs ==
    /\ IsPrefix(last.pre.trades, db.trades)
    /\ IsPrefix(last.pre.price_history, db.price_history)
    /\ IsPrefix(last.pre.ledger, db.ledger)
    /\ (last.op \in {"buy_shares", "sell_shares"} /\ last.out = "ok") =>
          /\ Len(db.trades) = Len(last.pre.trades) + 1
          /\ Len(db.price_history) = Len(last.pre.price_history) + 1
          /\ Len(db.ledger) = Len(last.pre.ledger) + 1

C30_Witness ==
    /\ last.op = "buy_shares"
    /\ last.out = "ok"
    /\ Len(last.pre.trades) > 0
    /\ Len(last.pre.ledger) > 1
    /\ Len(db.trades) = Len(last.pre.trades) + 1

\* C31: a successful buy is paid for -- after buy_shares succeeds with cost
\* c the buyer's balance is lower by exactly c than before the call and
\* locked_balance is back at its value before the call.
C31_BuyIsPaidFor ==
    (last.op = "buy_shares" /\ last.out = "ok") =>
        /\ db.wallet[last.user].balance = LastWallet.balance - LastCost.v
        /\ db.wallet[last.user].locked_balance = LastWallet.locked_balance

C34_SettlementPriceBefore ==
    last.op = "settle_event" =>
        \A m \in JustSettled :
            \A i \in 1 .. Len(db.settlements) :
                db.settlements[i].market_id = m =>
                    db.settlements[i].settlement_price =
                        CurveA * SqrtFixed(get_current_supply(last.pre, m))
                            + CurveB

C34_Witness ==
    /\ last.op = "settle_event"
    /\ last.out = "ok"
    /\ \E m \in JustSettled :
          /\ get_current_supply(last.pre, m) > 1
          /\ get_current_supply(db, m) = 0
          /\ \E i \in 1 .. Len(db.settlements) :
                /\ db.settlements[i].market_id = m
                /\ db.settlements[i].settlement_price > CurveB

\* the sum of the amounts of the ledger entries of type ttype that
\* reference market m
RECURSIVE SumMarketEntries(_, _, _)
SumMarketEntries(l, ttype, m) ==
    IF l = <<>> THEN 0
    ELSE (IF Head(l).transaction_type = ttype /\ Head(l).reference_id = m
          THEN Head(l).amount ELSE 0)
         + SumMarketEntries(Tail(l), ttype, m)

\* what the buys of market m have paid in less what its sells have paid out
Reserve(d, m) ==
    - SumMarketEntries(d.ledger, "buy", m)
        - SumMarketEntries(d.ledger, "sell", m)

\* the number of buy and sell entries that reference market m; each amount
\* is rounded once to the resolution 1 / Scale
TradeEntries(d, m) ==
    Cardinality({i \in 1 .. Len(d.ledger) :
                    /\ d.ledger[i].transaction_type \in {"buy", "sell"}
                    /\ d.ledger[i].reference_id = m})

C36_SharesWithinSupply ==
    /\ \A i \in 1 .. Len(db.positions) :
          /\ db.positions[i].shares >= 0
          /\ db.positions[i].shares
                 <= get_current_supply(db, db.positions[i].market_id)
    /\ (/\ last.op = "sell_shares"
        /\ last.pre.market_status[last.market] = "open") =>
          IF LastHeld < last.qty
          THEN last.out = "InsufficientSharesError"
          ELSE /\ last.qty <= get_current_supply(last.pre, last.market)
               /\ last.out # "InsufficientSharesError"

C36_Witness ==
    /\ last.op = "sell_shares"
    /\ last.pre.market_status[last.market] = "open"
    /\ LastHeld = last.qty
    /\ last.qty = get_current_supply(last.pre, last.market)
    /\ last.qty > 1
    /\ get_current_supply(db, last.market) = 0

\* C37: a settled market has supply 0 -- in every state reached by buy,
\* sell and settle calls run one after the other, every position of a
\* market whose status is settled has shares = 0.
C37_SettledMarketEmpty ==
    \A m \in Markets :
        db.market_status[m] = "settled" => get_current_supply(db, m) = 0

\* both requests are buys of the same user that have returned normally
BothBoughtSameUser ==
    /\ \A p \in Procs : req[p].pc = "done" /\ req[p].out = "ok"
    /\ req[1].user = req[2].user

\* C38: no double spend under concurrency -- of two concurrent buy_shares
\* calls by one user whose costs each fit the available funds but together
\* exceed them, at most one succeeds, and no committed state has
\* locked_balance above balance.
C38_NoDoubleSpend ==
    /\ (/\ BothBoughtSameUser
        /\ \A p \in Procs : req[p].cost <= SpendFunds)
          => req[1].cost + req[2].cost <= SpendFunds
    /\ \A u \in Users : db.wallet[u].locked_balance <= db.wallet[u].balance

\* C39: no double payout under concurrency -- however two settle_event
\* calls on the same event interleave, each position gets at most one
\* settlement credit per market and each market at most one
\* MarketSettlement.
C39_NoDoublePayout ==
    /\ \A m \in Markets : SettlementCount(db, m) <= 1
    /\ \A u \in Users, m \in Markets :
          Cardinality(SettlementEntries(db.ledger, u, m)) <= 1

C39_Witness ==
    /\ \A p \in Procs : req[p].pc = "done"
    /\ \E m \in Markets :
          /\ \A p \in Procs :
                \E k \in 1 .. Len(req[p].selected) : req[p].selected[k] = m
          /\ SettlementCount(db, m) = 1
          /\ \A u \in Users :
                Cardinality(SettlementEntries(db.ledger, u, m)) = 1
    /\ \E p \in Procs : req[p].out = "ValueError"
    /\ \E p \in Procs : req[p].out = "ok"

====
